---- MODULE Spec2Model ----
(***************************************************************************)
(* A model of IMU.py: the frame parser parse_imu_data, the moving average  *)
(* filter moving_average_filter, and the serial reader of IMUApp with the  *)
(* Tk "after" queue through which it hands its results to the main thread. *)
(*                                                                         *)
(* Text is a sequence of one-character strings.  A number is a record      *)
(* [k, v]: k = "fin" with v the value in units of 10^-FracDigits, k =      *)
(* "inf" with v the sign, or k = "nan".  Binary rounding of Python floats  *)
(* is not modelled: finite arithmetic is exact, a mean is the quotient    *)
(* sum / count in lowest terms.                                            *)
(***************************************************************************)
EXTENDS Integers, Sequences, FiniteSets, TLC

VARIABLES
    p_line,        \* SpecParse: the argument of parse_imu_data
    p_res,         \* SpecParse: what the call returned ("pending" before it)
    window_size,   \* SpecFilter: the window_size argument
    data_queue,    \* SpecFilter: the deque handed to moving_average_filter
    fed,           \* SpecFilter: history, every new_value fed so far
    returned,      \* SpecFilter: what the last call returned
    ser,           \* IMUApp.ser: "None", "open" or "closed"
    reader,        \* the thread of read_serial_data: "none", "running", "exited"
    queues,        \* IMUApp.acc_x_queue .. gyro_z_queue
    afterq,        \* callbacks scheduled with root.after(0, ...), oldest first
    status,        \* status_var
    non_data_msg,  \* non_data_msg_var
    shown,         \* the twelve value labels, as set by update_gui
    accepted,      \* history: number of lines parse_imu_data accepted
    varied,        \* history: how many of them were not LineA
    ev             \* history: what the last step did

vars == <<p_line, p_res, window_size, data_queue, fed, returned, ser, reader,
          queues, afterq, status, non_data_msg, shown, accepted, varied, ev>>

parseVars == <<p_line, p_res>>
filterVars == <<window_size, data_queue, fed, returned>>
appVars == <<ser, reader, queues, afterq, status, non_data_msg, shown,
             accepted, varied, ev>>

(***************************************************************************)
(* Bounds and program constants                                            *)
(***************************************************************************)

\* Fractional digits of the wire format "S0.05/0.11/1.01/-1.38/0.44/0.31E":
\* the unit of a finite value is 10^-FracDigits.
FracDigits == 2

\* Fields of a record: parse_imu_data's "len(values) != 6".
NumFields == 6

\* moving_average_filter's default window_size, the one read_serial_data uses.
DefaultWindow == 10

\* Largest decimal exponent of a finite double (1e308 is finite, 1e309 is inf).
MaxExp10 == 308

\* SpecParse: a generated line has at most this many '/'-joined tokens.
MaxTokens == 7

\* SpecFilter: window sizes 1..MaxW, at most MaxUpdates calls.
MaxW == 3
MaxUpdates == 4

\* Spec: the reader accepts at most MaxAccepted lines, at most MaxVaried of
\* them other than LineA; at most MaxPending callbacks wait in the after
\* queue.
MaxAccepted == 11
MaxVaried == 1
MaxPending == 2

(***************************************************************************)
(* Text                                                                    *)
(***************************************************************************)

Digits == {"0", "1", "2", "3", "4", "5", "6", "7", "8", "9"}

\* str.strip() and float() skip these at both ends.
Whitespace == {" ", "\t", "\r", "\n"}

DigitVal(c) ==
    CASE c = "0" -> 0 [] c = "1" -> 1 [] c = "2" -> 2 [] c = "3" -> 3
      [] c = "4" -> 4 [] c = "5" -> 5 [] c = "6" -> 6 [] c = "7" -> 7
      [] c = "8" -> 8 [] c = "9" -> 9

\* The letters of "nan", "inf", "infinity", lower-cased.
LowerChar(c) ==
    CASE c = "N" -> "n" [] c = "A" -> "a" [] c = "I" -> "i" [] c = "F" -> "f"
      [] c = "T" -> "t" [] c = "Y" -> "y" [] OTHER -> c

Lower(s) == [i \in 1..Len(s) |-> LowerChar(s[i])]

Min(a, b) == IF a < b THEN a ELSE b

RECURSIVE Pow10(_)
Pow10(n) == IF n <= 0 THEN 1 ELSE 10 * Pow10(n - 1)

\* s[from:to] with 1-based inclusive bounds; empty when from > to.
Slice(s, from, to) == IF from > to THEN <<>> ELSE SubSeq(s, from, to)

\* Index of the first character of s that is in set, 0 when there is none.
FirstIn(s, set) ==
    IF \E i \in 1..Len(s) : s[i] \in set
    THEN CHOOSE i \in 1..Len(s) :
            s[i] \in set /\ \A j \in 1..(i - 1) : s[j] \notin set
    ELSE 0

\* Index of the last character of s that is not in set, 0 when there is none.
LastNotIn(s, set) ==
    IF \E i \in 1..Len(s) : s[i] \notin set
    THEN CHOOSE i \in 1..Len(s) :
            s[i] \notin set /\ \A j \in (i + 1)..Len(s) : s[j] \in set
    ELSE 0

FirstNotIn(s, set) ==
    IF \E i \in 1..Len(s) : s[i] \notin set
    THEN CHOOSE i \in 1..Len(s) :
            s[i] \notin set /\ \A j \in 1..(i - 1) : s[j] \in set
    ELSE 0

\* str.strip(): leading and trailing whitespace removed.
Strip(s) ==
    IF FirstNotIn(s, Whitespace) = 0 THEN <<>>
    ELSE Slice(s, FirstNotIn(s, Whitespace), LastNotIn(s, Whitespace))

\* str.split(sep): the maximal sep-free pieces, in order; "" gives [""].
RECURSIVE Split(_, _)
Split(s, sep) ==
    LET i == FirstIn(s, {sep})
    IN  IF i = 0 THEN <<s>>
        ELSE <<Slice(s, 1, i - 1)>> \o Split(Slice(s, i + 1, Len(s)), sep)

\* sep.join(parts)
RECURSIVE Join(_, _)
Join(parts, sep) ==
    IF Len(parts) = 0 THEN <<>>
    ELSE IF Len(parts) = 1 THEN parts[1]
    ELSE parts[1] \o <<sep>> \o Join(Tail(parts), sep)

StartsWith(s, c) == Len(s) >= 1 /\ s[1] = c
EndsWith(s, c) == Len(s) >= 1 /\ s[Len(s)] = c

(***************************************************************************)
(* Numbers and float()                                                     *)
(***************************************************************************)

Fin(n) == [k |-> "fin", v |-> n]
NaN == [k |-> "nan", v |-> 0]
Inf(sign) == [k |-> "inf", v |-> sign]

IsFinite(x) == x.k = "fin"

\* digit (["_"] digit)*: the digit groups of a Python float literal.
IsDigitPart(s) ==
    /\ Len(s) >= 1
    /\ \A i \in 1..Len(s) : s[i] \in Digits \cup {"_"}
    /\ s[1] \in Digits
    /\ s[Len(s)] \in Digits
    /\ \A i \in 1..(Len(s) - 1) : ~(s[i] = "_" /\ s[i + 1] = "_")

IsDigit(c) == c \in Digits
DigitsOf(s) == SelectSeq(s, IsDigit)

RECURSIVE IntOf(_)
IntOf(ds) ==
    IF Len(ds) = 0 THEN 0
    ELSE 10 * IntOf(Slice(ds, 1, Len(ds) - 1)) + DigitVal(ds[Len(ds)])

\* Significant digits: the digits without their leading zeros.
SigDigits(ds) ==
    IF FirstNotIn(ds, {"0"}) = 0 THEN <<>>
    ELSE Slice(ds, FirstNotIn(ds, {"0"}), Len(ds))

\* n / d rounded to the nearest integer, ties to even (n >= 0, d > 0).
RoundDiv(n, d) ==
    LET q == n \div d
        r == n % d
    IN  IF 2 * r < d THEN q
        ELSE IF 2 * r > d THEN q + 1
        ELSE IF q % 2 = 0 THEN q ELSE q + 1

SignOf(s) == IF Len(s) >= 1 /\ s[1] = "-" THEN -1 ELSE 1
Unsigned(s) ==
    IF Len(s) >= 1 /\ s[1] \in {"+", "-"} THEN Slice(s, 2, Len(s)) ELSE s

\* The parts of an unsigned decimal literal: mantissa, exponent, integer
\* and fraction digits.
Mantissa(r) ==
    IF FirstIn(r, {"e", "E"}) = 0 THEN r
    ELSE Slice(r, 1, FirstIn(r, {"e", "E"}) - 1)
HasExponent(r) == FirstIn(r, {"e", "E"}) # 0
Exponent(r) == Slice(r, FirstIn(r, {"e", "E"}) + 1, Len(r))
IntPart(m) ==
    IF FirstIn(m, {"."}) = 0 THEN m ELSE Slice(m, 1, FirstIn(m, {"."}) - 1)
FracPart(m) ==
    IF FirstIn(m, {"."}) = 0 THEN <<>>
    ELSE Slice(m, FirstIn(m, {"."}) + 1, Len(m))

\* An unsigned decimal literal float() accepts: digits with an optional
\* fraction ("1", "1.", ".5", "1.5") and an optional exponent.
IsDecimal(r) ==
    LET m == Mantissa(r)
    IN  /\ IF FirstIn(m, {"."}) = 0 THEN IsDigitPart(m)
           ELSE /\ IntPart(m) = <<>> \/ IsDigitPart(IntPart(m))
                /\ FracPart(m) = <<>> \/ IsDigitPart(FracPart(m))
                /\ IntPart(m) # <<>> \/ FracPart(m) # <<>>
        /\ HasExponent(r) => IsDigitPart(Unsigned(Exponent(r)))

\* The value of an unsigned decimal literal: inf past the double range,
\* else the value in units of 10^-FracDigits (finer digits are rounded).
DecimalValue(r) ==
    LET m == Mantissa(r)
        ds == DigitsOf(IntPart(m)) \o DigitsOf(FracPart(m))
        e == IF HasExponent(r)
             THEN SignOf(Exponent(r)) * IntOf(DigitsOf(Exponent(r)))
             ELSE 0
        x == e - Len(DigitsOf(FracPart(m)))
        sig == SigDigits(ds)
    IN  IF sig = <<>> THEN Fin(0)
        ELSE IF Len(sig) + x - 1 > MaxExp10 THEN Inf(1)
        ELSE IF x + FracDigits >= 0
             THEN Fin(IntOf(sig) * Pow10(x + FracDigits))
             ELSE Fin(RoundDiv(IntOf(sig), Pow10(-(x + FracDigits))))

Negate(x) == [x EXCEPT !.v = -(x.v)]

\* The mutant of float(): a token that does not convert counts as 0.0.
Float_default(tok) ==
    LET s == Strip(tok)
        r == Unsigned(s)
        w == Lower(r)
    IN  IF w = <<"n", "a", "n">> THEN [ok |-> TRUE, val |-> NaN]
        ELSE IF w \in {<<"i", "n", "f">>,
                       <<"i", "n", "f", "i", "n", "i", "t", "y">>}
             THEN [ok |-> TRUE, val |-> Inf(SignOf(s))]
        ELSE IF IsDecimal(r)
             THEN [ok |-> TRUE,
                   val |-> IF SignOf(s) = -1 THEN Negate(DecimalValue(r))
                           ELSE DecimalValue(r)]
        ELSE [ok |-> TRUE, val |-> Fin(0)]

\* float(tok): [ok |-> FALSE] stands for ValueError.
Float(tok) ==
    LET s == Strip(tok)
        r == Unsigned(s)
        w == Lower(r)
    IN  IF w = <<"n", "a", "n">> THEN [ok |-> TRUE, val |-> NaN]
        ELSE IF w \in {<<"i", "n", "f">>,
                       <<"i", "n", "f", "i", "n", "i", "t", "y">>}
             THEN [ok |-> TRUE, val |-> Inf(SignOf(s))]
        ELSE IF IsDecimal(r)
             THEN [ok |-> TRUE,
                   val |-> IF SignOf(s) = -1 THEN Negate(DecimalValue(r))
                           ELSE DecimalValue(r)]
        ELSE [ok |-> FALSE, val |-> NaN]

(***************************************************************************)
(* parse_imu_data                                                          *)
(***************************************************************************)

None == [tag |-> "None", vals |-> <<>>]
Sample(vals) == [tag |-> "tuple", vals |-> vals]
Raised(exc) == [tag |-> exc, vals |-> <<>>]

\* The body of the try block: the split, the count and the conversions.
\* A token float() refuses raises ValueError.
parse_try(data) ==
    LET values == Split(Slice(data, 2, Len(data) - 1), "/")
    IN  IF Len(values) # NumFields THEN None
        ELSE IF \E i \in 1..NumFields : ~Float(values[i]).ok
             THEN Raised("ValueError")
        ELSE Sample([i \in 1..NumFields |-> Float(values[i]).val])

\* The mutant without the except clause: ValueError leaves the function.
parse_imu_data_nocatch(data) ==
    IF ~StartsWith(data, "S") \/ ~EndsWith(data, "E") THEN None
    ELSE parse_try(data)

\* The mutant of the sentinel test: "and" for "or".
parse_imu_data_and(data) ==
    IF ~StartsWith(data, "S") /\ ~EndsWith(data, "E") THEN None
    ELSE IF parse_try(data).tag = "ValueError" THEN None
    ELSE parse_try(data)

parse_imu_data(data) ==
    IF ~StartsWith(data, "S") \/ ~EndsWith(data, "E") THEN None
    ELSE IF parse_try(data).tag = "ValueError" THEN None
    ELSE parse_try(data)

(***************************************************************************)
(* moving_average_filter                                                   *)
(***************************************************************************)

\* x + y on Python floats: NaN absorbs, inf - inf is NaN.
Add(x, y) ==
    IF x.k = "nan" \/ y.k = "nan" THEN NaN
    ELSE IF x.k = "inf" /\ y.k = "inf" THEN IF x.v = y.v THEN x ELSE NaN
    ELSE IF x.k = "inf" THEN x
    ELSE IF y.k = "inf" THEN y
    ELSE Fin(x.v + y.v)

\* In the definitions below an intermediate value is bound by a singleton
\* set (x \in {e}): it is then computed once, where a LET would compute it
\* again at every use.

\* sum(data_queue): from 0, left to right.
RECURSIVE SumFrom(_, _)
SumFrom(acc, q) ==
    IF Len(q) = 0 THEN acc
    ELSE CHOOSE r \in {SumFrom(a, t) : a \in {Add(acc, q[1])}, t \in {Tail(q)}} :
            TRUE
Sum(q) == SumFrom(Fin(0), q)

RECURSIVE GCD(_, _)
GCD(a, b) == IF b = 0 THEN a ELSE GCD(b, a % b)
Abs(n) == IF n < 0 THEN -n ELSE n

\* A quotient: [k, num, den], num / den in lowest terms when finite.
Quot(num, den) ==
    LET g == GCD(Abs(num), den)
    IN  [k |-> "fin", num |-> num \div g, den |-> den \div g]
QNaN == [k |-> "nan", num |-> 0, den |-> 1]
QInf(sign) == [k |-> "inf", num |-> sign, den |-> 1]
NoQuot == [k |-> "none", num |-> 0, den |-> 1]

\* x / n for a float x and a count n; n = 0 raises ZeroDivisionError.
Div(x, n) ==
    IF n = 0 THEN [k |-> "ZeroDivisionError", num |-> 0, den |-> 1]
    ELSE IF x.k = "nan" THEN QNaN
    ELSE IF x.k = "inf" THEN QInf(x.v)
    ELSE Quot(x.v, n)

\* The append, the eviction and the mean of moving_average_filter, the
\* eviction given as the deque q2 that q1 becomes.
AfterAppend(q, new_value) == Append(q, new_value)
Returned(q2) == [queue |-> q2, result |-> Div(Sum(q2), Len(q2))]

\* The mutant that evicts with pop() instead of popleft().
moving_average_filter_pop(q, new_value, w) ==
    CHOOSE r \in
        { Returned(q2) :
            q2 \in { IF Len(q1) > w THEN Slice(q1, 1, Len(q1) - 1) ELSE q1 :
                        q1 \in {AfterAppend(q, new_value)} } } : TRUE

\* The mutant that evicts at ">=" instead of ">".
moving_average_filter_ge(q, new_value, w) ==
    CHOOSE r \in
        { Returned(q2) :
            q2 \in { IF Len(q1) >= w THEN Tail(q1) ELSE q1 :
                        q1 \in {AfterAppend(q, new_value)} } } : TRUE

\* moving_average_filter(data_queue, new_value, window_size): the deque
\* after the call and the value returned.  q1 is the deque after append,
\* q2 after popleft.
moving_average_filter(q, new_value, w) ==
    CHOOSE r \in
        { Returned(q2) :
            q2 \in { IF Len(q1) > w THEN Tail(q1) ELSE q1 :
                        q1 \in {AfterAppend(q, new_value)} } } : TRUE

(***************************************************************************)
(* SpecParse: parse_imu_data called once on a line drawn from ParseInputs  *)
(***************************************************************************)

\* Tokens a generated line is made of: decimals, what float() also takes
\* ("nan", "inf", exponents, signs, blanks, underscores) and what it refuses.
Tokens ==
    { <<"1">>,
      <<"0", ".", "0", "5">>,
      <<"-", "1", ".", "3", "8">>,
      <<>>,
      <<"x">>,
      <<"n", "a", "n">>,
      <<"i", "n", "f">>,
      <<"-", "i", "n", "f">>,
      <<"N", "a", "N">>,
      <<"I", "n", "f", "i", "n", "i", "t", "y">>,
      <<"+", "1">>,
      <<".", "5">>,
      <<"5", ".">>,
      <<"1", "e", "2">>,
      <<"1", "E", "-", "2">>,
      <<"1", "e", "3", "0", "9">>,
      <<" ", "1">>,
      <<"1", "_", "0">>,
      <<"1", "_">>,
      <<"-">>,
      <<".">>,
      <<"1", ".", "2", ".", "3">>,
      <<"1", "e">>,
      <<"-", "-", "1">>,
      <<"1", " ", "2">>,
      <<"0", "x", "1">>,
      <<"E">>,
      <<"3", "/", "4">>,
      <<"i", "n", "f", "i", "n", "i", "t">>,
      <<"-", "0">>,
      <<"0", ".", "1", "2", "5">> }

BaseTokens == { <<"2">>, <<"-", "0", ".", "4", "4">> }

Heads == { <<>>, <<"S">>, <<"s">>, <<"E">> }
Tails == { <<>>, <<"E">>, <<"e">>, <<"S">> }

\* n tokens, all the base token but the p-th, which is t (p = 0: none).
TokenLists ==
    { [i \in 1..n |-> IF i = p THEN t ELSE b] :
        n \in 0..MaxTokens, p \in 0..MaxTokens, t \in Tokens, b \in BaseTokens }

ParseInputs ==
    { h \o Join(toks, "/") \o tl : h \in Heads, tl \in Tails, toks \in TokenLists }

Pending == [tag |-> "pending", vals |-> <<>>]

\* The variables of the other specifications, at rest.
FilterIdle ==
    /\ window_size = 0
    /\ data_queue = <<>>
    /\ fed = <<>>
    /\ returned = NoQuot

AppIdle ==
    /\ ser = "None"
    /\ reader = "none"
    /\ queues = <<>>
    /\ afterq = <<>>
    /\ status = ""
    /\ non_data_msg = <<>>
    /\ shown = <<>>
    /\ accepted = 0
    /\ varied = 0
    /\ ev = [op |-> "", data |-> <<>>]

ParseIdle ==
    /\ p_line = <<>>
    /\ p_res = Pending

InitParse ==
    /\ p_line \in ParseInputs
    /\ p_res = Pending
    /\ FilterIdle
    /\ AppIdle

ParseCall ==
    /\ p_res = Pending
    /\ p_res' = parse_imu_data(p_line)
    /\ UNCHANGED <<p_line, filterVars, appVars>>

NextParse == ParseCall

SpecParse == InitParse /\ [][NextParse]_vars

(***************************************************************************)
(* Claims about parse_imu_data (SpecParse)                                 *)
(***************************************************************************)

\* The claims' reading of a line, stated without split(): the envelope, the
\* places of the slashes in the body and the pieces between them.
Envelope(line) ==
    Len(line) >= 2 /\ line[1] = "S" /\ line[Len(line)] = "E"

Body(line) == Slice(line, 2, Len(line) - 1)

SlashIdx(b) == {j \in 1..Len(b) : b[j] = "/"}

\* The place of the n-th slash of b; 0 for n = 0, Len(b) + 1 past the last.
NthSlash(b, n) ==
    IF n = 0 THEN 0
    ELSE IF n > Cardinality(SlashIdx(b)) THEN Len(b) + 1
    ELSE CHOOSE j \in SlashIdx(b) :
            Cardinality({k \in SlashIdx(b) : k <= j}) = n

Piece(b, i) == Slice(b, NthSlash(b, i - 1) + 1, NthSlash(b, i) - 1)

SixTokens(line) == Cardinality(SlashIdx(Body(line))) = NumFields - 1

WellFormed(line) ==
    /\ Envelope(line)
    /\ SixTokens(line)
    /\ \A i \in 1..NumFields : Float(Piece(Body(line), i)).ok

\* C1: parse_imu_data returns a six-field tuple, field i the number that
\* token i converts to, exactly when the line starts with 'S', ends with
\* 'E' and its body has exactly six tokens that all convert; in every other
\* case it returns None.
C1_AllOrNothing ==
    p_res # Pending =>
        IF WellFormed(p_line)
        THEN /\ p_res.tag = "tuple"
             /\ Len(p_res.vals) = NumFields
             /\ \A i \in 1..NumFields :
                    p_res.vals[i] = Float(Piece(Body(p_line), i)).val
        ELSE p_res = None

\* C1's case: a line in the envelope with six tokens, exactly one of which
\* does not convert, was rejected.
C1_Witness ==
    /\ p_res = None
    /\ Envelope(p_line)
    /\ SixTokens(p_line)
    /\ Cardinality({i \in 1..NumFields :
                        ~Float(Piece(Body(p_line), i)).ok}) = 1

AllDigits(s) == Len(s) >= 1 /\ \A i \in 1..Len(s) : s[i] \in Digits

\* Standard signed decimal notation: optional leading '-', digits, optional
\* fractional part.
IsStandardDecimal(t) ==
    LET u == IF Len(t) >= 1 /\ t[1] = "-" THEN Slice(t, 2, Len(t)) ELSE t
    IN  IF FirstIn(u, {"."}) = 0 THEN AllDigits(u)
        ELSE AllDigits(IntPart(u)) /\ AllDigits(FracPart(u))

\* What float() takes besides: a token that, without the whitespace around
\* it and an optional sign, is a decimal literal or one of the words below.
IsFloatWord(t) ==
    Lower(Unsigned(Strip(t))) \in
        { <<"n", "a", "n">>, <<"i", "n", "f">>,
          <<"i", "n", "f", "i", "n", "i", "t", "y">> }

IsDecimalToken(t) == IsDecimal(Unsigned(Strip(t)))

\* C8 as stated: every field of every Sample parse_imu_data returns is a
\* finite number (the claim's tokens in standard signed decimal notation
\* convert to nothing else).
C8_EveryFieldFinite ==
    p_res.tag = "tuple" =>
        \A i \in 1..NumFields : IsFinite(p_res.vals[i])

\* C8 amended: a line in the envelope with six tokens is accepted exactly
\* when every token is one float() converts (a decimal literal or nan, inf,
\* infinity, after blanks and a sign); a field from nan, inf or infinity is
\* not finite, a field from a token in standard signed decimal notation is.
C8_FloatSyntax ==
    (p_res # Pending /\ Envelope(p_line) /\ SixTokens(p_line)) =>
        /\ p_res.tag = "tuple" <=>
              \A i \in 1..NumFields :
                  \/ IsFloatWord(Piece(Body(p_line), i))
                  \/ IsDecimalToken(Piece(Body(p_line), i))
        /\ p_res.tag = "tuple" =>
              \A i \in 1..NumFields :
                  /\ IsFloatWord(Piece(Body(p_line), i))
                        => ~IsFinite(p_res.vals[i])
                  /\ IsStandardDecimal(Piece(Body(p_line), i))
                        => IsFinite(p_res.vals[i])

\* C8's case: an accepted line one of whose fields is NaN.
C8_Witness ==
    /\ p_res.tag = "tuple"
    /\ \E i \in 1..NumFields : p_res.vals[i] = NaN

(***************************************************************************)
(* SpecFilter: one deque, created empty, fed through moving_average_filter *)
(* with a window size drawn from 1..MaxW                                   *)
(***************************************************************************)

\* 10, 20, 30, 40 and a NaN.
FilterValues == {Fin(1000), Fin(2000), Fin(3000), Fin(4000), NaN}

InitFilter ==
    /\ window_size \in 1..MaxW
    /\ data_queue = <<>>
    /\ fed = <<>>
    /\ returned = NoQuot
    /\ ParseIdle
    /\ AppIdle

FilterCall(v) ==
    /\ Len(fed) < MaxUpdates
    /\ data_queue' = moving_average_filter(data_queue, v, window_size).queue
    /\ returned' = moving_average_filter(data_queue, v, window_size).result
    /\ fed' = Append(fed, v)
    /\ UNCHANGED <<window_size, parseVars, appVars>>

NextFilter == \E v \in FilterValues : FilterCall(v)

SpecFilter == InitFilter /\ [][NextFilter]_vars

\* The last min(k, W) values fed, k the number of calls so far.
LastFed == Slice(fed, Len(fed) - Min(Len(fed), window_size) + 1, Len(fed))

RECURSIVE PlainSum(_)
PlainSum(q) == IF Len(q) = 0 THEN 0 ELSE q[1].v + PlainSum(Tail(q))

\* C2: the k-th call returns the arithmetic mean of the last min(k, W)
\* values fed (those the window then holds, oldest first): the sum of these
\* finite values divided by their count.
C2_MeanOfLastW ==
    Len(fed) >= 1 =>
        /\ data_queue = LastFed
        /\ (\A i \in 1..Len(LastFed) : IsFinite(LastFed[i])) =>
              /\ returned.k = "fin"
              /\ returned.num * Len(LastFed) = PlainSum(LastFed) * returned.den

\* C2's case: W = 3 and 10, 20, 30, 40 fed; the fourth call returned 30.
C2_Witness ==
    /\ window_size = 3
    /\ fed = <<Fin(1000), Fin(2000), Fin(3000), Fin(4000)>>
    /\ returned = [k |-> "fin", num |-> 3000, den |-> 1]

\* C3: after N completed updates the window holds min(N, W) values.
C3_WindowLength == Len(data_queue) = Min(Len(fed), window_size)

\* C3's case: more updates than the window size, the window full.
C3_Witness ==
    /\ Len(fed) > window_size
    /\ Len(data_queue) = window_size

(***************************************************************************)
(* IMUApp: the reader thread and the Tk main thread                        *)
(***************************************************************************)

\* What the device sends, as readline() returns it: bytes with their line
\* terminator.  "xFF" stands for one byte that is not valid UTF-8.
LineA ==
    <<"S", "0", ".", "0", "5", "/", "0", ".", "1", "1", "/", "1", ".", "0", "1", "/", "-", "1", ".", "3", "8", "/", "0", ".", "4", "4", "/", "0", ".", "3", "1", "E", "\r", "\n">>
LineB ==
    <<"S", "1", "/", "-", "2", "/", ".", "5", "/", "1", "e", "1", "/", "-", "0", ".", "0", "7", "/", "3", ".", "E", "\n">>
LineBoot ==
    <<"B", "O", "O", "T", " ", "O", "K", "\r", "\n">>
LineBadToken ==
    <<"S", "1", "/", "2", "/", "x", "/", "4", "/", "5", "/", "6", "E", "\n">>
LineBadUtf8 ==
    <<"S", "xFF", "\n">>

DeviceLines == {LineA, LineB, LineBoot, LineBadToken, LineBadUtf8}

NotUtf8 == {"xFF"}

\* data.decode('utf-8'): raises UnicodeDecodeError on a byte that is not
\* UTF-8.
Decodes(data) == \A i \in 1..Len(data) : data[i] \notin NotUtf8

\* The mutant that forgets .strip().
data_str_nostrip(data) == data

\* data_str = data.decode('utf-8').strip(), for data that decodes.
data_str(data) == Strip(data)

\* What parse_imu_data returns for each line of the device that decodes.
imu_data_of ==
    [d \in {x \in DeviceLines : Decodes(x)} |-> parse_imu_data(data_str(d))]

\* The callbacks the reader schedules with root.after(0, ...).
UpdateGui(raw, filt) ==
    [fn |-> "update_gui", text |-> <<>>, raw |-> raw, filt |-> filt]
NonDataMsg(text) ==
    [fn |-> "non_data_msg_var.set", text |-> text, raw |-> <<>>, filt |-> <<>>]
StatusSet(s) ==
    [fn |-> "status_var.set", text |-> <<s>>, raw |-> <<>>, filt |-> <<>>]
ConnectSerial ==
    [fn |-> "connect_serial", text |-> <<>>, raw |-> <<>>, filt |-> <<>>]

Event(op, data) == [op |-> op, data |-> data]

\* The mutant of a copied line: acc_y filtered through acc_x_queue.
QueueOf_copied(i) == IF i = 2 THEN 1 ELSE i

\* The deque the i-th call of moving_average_filter is given: acc_x_queue
\* for acc_x, ..., gyro_z_queue for gyro_z.
QueueOf(i) == i

\* The mutant of a copied line: acc_x fed to the acc_y filter as well.
ArgOf_copied(i) == IF i = 2 THEN 1 ELSE i

\* The field the i-th call of moving_average_filter is given as new_value.
ArgOf(i) == i

\* The six calls of moving_average_filter, in order, from the i-th on; a
\* call that raises ends them.
RECURSIVE FilterFrom(_, _, _, _)
FilterFrom(i, qs, vals, outs) ==
    IF i > NumFields THEN [queues |-> qs, filt |-> outs, exc |-> FALSE]
    ELSE CHOOSE r \in
            { IF c.result.k = "ZeroDivisionError"
              THEN [queues |-> [qs EXCEPT ![QueueOf(i)] = c.queue],
                    filt |-> outs, exc |-> TRUE]
              ELSE FilterFrom(i + 1, [qs EXCEPT ![QueueOf(i)] = c.queue],
                              vals, Append(outs, c.result)) :
                c \in {moving_average_filter(qs[QueueOf(i)], vals[ArgOf(i)],
                                             DefaultWindow)} } : TRUE

\* f"{x:.2f}": the number to two decimals, as a count of hundredths.
RoundSigned(n, d) == IF n >= 0 THEN RoundDiv(n, d) ELSE -RoundDiv(-n, d)
Format2(x) ==
    IF x.k # "fin" THEN [k |-> x.k, v |-> IF x.k = "inf" THEN x.v ELSE 0]
    ELSE Fin(RoundSigned(x.v * 100, Pow10(FracDigits)))
Format2Quot(x) ==
    IF x.k # "fin" THEN [k |-> x.k, v |-> IF x.k = "inf" THEN x.num ELSE 0]
    ELSE Fin(RoundSigned(x.num * 100, x.den * Pow10(FracDigits)))

\* The twelve labels at "0.00".
Zeroes == [i \in 1..(2 * NumFields) |-> Fin(0)]

EmptyQueues == [i \in 1..NumFields |-> <<>>]

\* After IMUApp.__init__: connect_serial either opened the port, and
\* start_reading started the reader, or failed, and no reader runs.
Init ==
    /\ \/ ser = "open" /\ status = "Connected" /\ reader = "running"
       \/ ser = "None" /\ status = "Error" /\ reader = "none"
    /\ queues = EmptyQueues
    /\ afterq = <<>>
    /\ non_data_msg = <<>>
    /\ shown = Zeroes
    /\ accepted = 0
    /\ varied = 0
    /\ ev = Event("init", <<>>)
    /\ ParseIdle
    /\ FilterIdle

\* The mutant that makes new deques on a reconnect.
connect_serial_reset(ok) ==
    /\ ser' = IF ok THEN "open" ELSE "None"
    /\ status' = IF ok THEN "Connected" ELSE "Error"
    /\ queues' = EmptyQueues

\* connect_serial: serial.Serial(...) opens the port (ok) or raises
\* SerialException.
connect_serial(ok) ==
    /\ ser' = IF ok THEN "open" ELSE "None"
    /\ status' = IF ok THEN "Connected" ELSE "Error"
    /\ UNCHANGED queues

\* update_gui: the twelve labels and the status.
update_gui(raw, filt) ==
    /\ shown' = [i \in 1..(2 * NumFields) |->
                    IF i <= NumFields THEN Format2(raw[i])
                    ELSE Format2Quot(filt[i - NumFields])]
    /\ status' = "Receiving Data"

\* The two except clauses of read_serial_data do the same: schedule the
\* status, close the port if it is open, schedule connect_serial; the
\* thread then ends.
ReaderFails(op, data, qs) ==
    /\ afterq' = afterq \o <<StatusSet("Error"), ConnectSerial>>
    /\ ser' = IF ser = "open" THEN "closed" ELSE ser
    /\ reader' = "exited"
    /\ queues' = qs
    /\ ev' = Event(op, data)
    /\ UNCHANGED <<status, non_data_msg, shown, accepted, varied>>

\* readline() timed out and returned b"": the loop goes round.
ReadTimeout ==
    /\ reader = "running"
    /\ ev' = Event("timeout", <<>>)
    /\ UNCHANGED <<ser, reader, queues, afterq, status, non_data_msg, shown,
                   accepted, varied, parseVars, filterVars>>

\* readline() raised SerialException.
ReadRaises ==
    /\ reader = "running"
    /\ Len(afterq) + 2 <= MaxPending
    /\ ReaderFails("SerialException", <<>>, queues)
    /\ UNCHANGED <<parseVars, filterVars>>

\* One round of the loop of read_serial_data on a line that readline()
\* returned: decode and strip, parse, then either the six filters and
\* update_gui, or the non-data message.
ReadLine(data) ==
    /\ reader = "running"
    /\ UNCHANGED <<parseVars, filterVars>>
    /\ IF ~Decodes(data)
       THEN /\ Len(afterq) + 2 <= MaxPending
            /\ ReaderFails("UnicodeDecodeError", data, queues)
       ELSE \E imu_data \in {imu_data_of[data]} :
            IF imu_data.tag = "tuple"
            THEN \E f \in {FilterFrom(1, queues, imu_data.vals, <<>>)} :
                 IF f.exc
                 THEN /\ Len(afterq) + 2 <= MaxPending
                      /\ ReaderFails("filter_error", data, f.queues)
                 ELSE /\ accepted < MaxAccepted
                      /\ data # LineA => varied < MaxVaried
                      /\ Len(afterq) < MaxPending
                      /\ queues' = f.queues
                      /\ afterq' = Append(afterq,
                                          UpdateGui(imu_data.vals, f.filt))
                      /\ accepted' = accepted + 1
                      /\ varied' = IF data = LineA THEN varied ELSE varied + 1
                      /\ ev' = Event("sample", data)
                      /\ UNCHANGED <<ser, reader, status, non_data_msg, shown>>
            ELSE IF imu_data.tag = "None"
            THEN /\ Len(afterq) < MaxPending
                 /\ afterq' = Append(afterq, NonDataMsg(data_str(data)))
                 /\ ev' = Event("non_data", data)
                 /\ UNCHANGED <<ser, reader, queues, status, non_data_msg,
                                shown, accepted, varied>>
            ELSE /\ Len(afterq) + 2 <= MaxPending
                 /\ ReaderFails("parse_error", data, queues)

\* The Tk main loop runs the oldest scheduled callback.
RunCallback ==
    /\ afterq # <<>>
    /\ afterq' = Tail(afterq)
    /\ ev' = Event(Head(afterq).fn, <<>>)
    /\ UNCHANGED <<reader, accepted, varied, parseVars, filterVars>>
    /\ LET cb == Head(afterq)
       IN  CASE cb.fn = "update_gui" ->
                    /\ update_gui(cb.raw, cb.filt)
                    /\ UNCHANGED <<ser, queues, non_data_msg>>
             [] cb.fn = "non_data_msg_var.set" ->
                    /\ non_data_msg' = cb.text
                    /\ UNCHANGED <<ser, queues, status, shown>>
             [] cb.fn = "status_var.set" ->
                    /\ status' = cb.text[1]
                    /\ UNCHANGED <<ser, queues, non_data_msg, shown>>
             [] cb.fn = "connect_serial" ->
                    /\ \E ok \in BOOLEAN : connect_serial(ok)
                    /\ UNCHANGED <<non_data_msg, shown>>

ReaderStep ==
    \/ ReadTimeout
    \/ ReadRaises
    \/ \E data \in DeviceLines : ReadLine(data)

Next == ReaderStep \/ RunCallback

Spec == Init /\ [][Next]_vars

\* The reader thread runs while it can, and the main loop runs what is
\* scheduled.
FairSpec == Spec /\ WF_vars(ReaderStep) /\ WF_vars(RunCallback)

(***************************************************************************)
(* Claims about the reader (Spec, FairSpec)                                *)
(***************************************************************************)

\* A step that read a line leaves it in ev.data.
LineRead(e) == e.data # <<>>

CallbackOps ==
    {"update_gui", "non_data_msg_var.set", "status_var.set", "connect_serial"}

\* The claims' reading of the device's lines: the text the parser is given,
\* whether it is a record, and the record's six values.
TextOf == [d \in DeviceLines |-> Strip(d)]
IsRecord == [d \in DeviceLines |-> Decodes(d) /\ WellFormed(TextOf[d])]
RecordOf ==
    [d \in DeviceLines |->
        IF IsRecord[d]
        THEN [i \in 1..NumFields |-> Float(Piece(Body(TextOf[d]), i)).val]
        ELSE <<>>]

\* A window after one more value: the last DefaultWindow of them.
WindowAfter(q, v) ==
    Slice(Append(q, v), Len(q) + 2 - Min(Len(q) + 1, DefaultWindow), Len(q) + 1)

\* m is the arithmetic mean of the finite values of q.
IsMeanOf(m, q) == m.k = "fin" /\ m.num * Len(q) = PlainSum(q) * m.den

\* The one callback a line that decodes is owed: update_gui with the
\* record's values and the means of the windows that now hold them, or the
\* non-data message with the text the parser was given.
HandsOff(d, cb) ==
    IF IsRecord[d]
    THEN /\ cb.fn = "update_gui"
         /\ cb.raw = RecordOf[d]
         /\ Len(cb.filt) = NumFields
         /\ \A i \in 1..NumFields :
                IsMeanOf(cb.filt[i], WindowAfter(queues[i], RecordOf[d][i]))
    ELSE cb = NonDataMsg(TextOf[d])

InOrder ==
    ev'.op \in CallbackOps =>
        afterq # <<>> /\ ev'.op = Head(afterq).fn /\ afterq' = Tail(afterq)

\* C4 as stated: every non-empty line the reader reads is handed off as
\* exactly one callback, scheduled behind those of the lines before it:
\* update_gui with its values for a record, the non-data message with its
\* text for any other line; the main loop runs the callbacks oldest first.
C4_OneHandoffPerLine ==
    [][/\ LineRead(ev') =>
            /\ Len(afterq') = Len(afterq) + 1
            /\ SubSeq(afterq', 1, Len(afterq)) = afterq
            /\ afterq'[Len(afterq')].fn \in {"update_gui", "non_data_msg_var.set"}
            /\ Decodes(ev'.data) => HandsOff(ev'.data, afterq'[Len(afterq')])
       /\ InOrder]_vars

\* C4 amended: the same of every non-empty line that decodes as UTF-8.
C4_OneHandoffPerDecodedLine ==
    [][/\ (LineRead(ev') /\ Decodes(ev'.data)) =>
            /\ Len(afterq') = Len(afterq) + 1
            /\ SubSeq(afterq', 1, Len(afterq)) = afterq
            /\ HandsOff(ev'.data, afterq'[Len(afterq')])
       /\ InOrder]_vars

\* C4's case: "BOOT OK" then a record read; their two callbacks wait in
\* that order.
C4_Witness ==
    /\ ev = Event("sample", LineB)
    /\ Len(afterq) = 2
    /\ afterq[1] = NonDataMsg(Strip(LineBoot))
    /\ afterq[2].fn = "update_gui"

\* C5: no line that decodes makes parse_imu_data or moving_average_filter
\* raise: the reader never enters an except clause for what a line says,
\* and after a record or a non-data line it is still running.
C5_ContentNeverRaises ==
    /\ ev.op \notin {"parse_error", "filter_error"}
    /\ ev.op \in {"sample", "non_data"} => reader = "running"

\* C5's case: the line with a non-numeric token went to the non-data path
\* and the reader runs on.
C5_Witness ==
    /\ ev = Event("non_data", LineBadToken)
    /\ reader = "running"
    /\ accepted > 0

\* C6: only the step that processes an accepted Sample changes a window; a
\* rejected line, a failed read, the closing of the port and connect_serial
\* leave all six as they were.
C6_WindowsOnlyBySample ==
    [][ev'.op # "sample" => queues' = queues]_vars

\* C6's case: connect_serial reopened the port after a failed read, the
\* windows still holding the samples from before.
C6_Witness ==
    /\ ev.op = "connect_serial"
    /\ ser = "open"
    /\ reader = "exited"
    /\ accepted > 0
    /\ \A i \in 1..NumFields : Len(queues[i]) = Min(accepted, DefaultWindow)

\* C7 as stated: once connect_serial has reopened the port after a failed
\* read, a line is eventually parsed and handed off.
C7_ResumesAfterReconnect ==
    (ev.op = "connect_serial" /\ ser = "open")
        ~> (ev.op \in {"sample", "non_data"})

\* C9: processing a Sample gives each channel's window that channel's value
\* and nothing else (the window's former contents, that value, the oldest
\* dropped past DefaultWindow), and each filtered value is the mean of that
\* channel's window alone.
C9_ChannelsIndependent ==
    [][ev'.op = "sample" =>
          /\ afterq' # <<>>
          /\ LET cb == afterq'[Len(afterq')]
             IN  /\ Len(cb.raw) = NumFields
                 /\ Len(cb.filt) = NumFields
                 /\ \A i \in 1..NumFields :
                        /\ queues'[i] = WindowAfter(queues[i], cb.raw[i])
                        /\ IsMeanOf(cb.filt[i], queues'[i])]_vars

\* C9's case: a record read after others, the windows of two channels
\* holding different values.
C9_Witness ==
    /\ ev = Event("sample", LineB)
    /\ accepted >= 2
    /\ queues[1] # queues[2]

\* C10: between lines all six windows have the same length, min(A, 10) for
\* A lines accepted so far.
C10_EqualLengths ==
    \A i \in 1..NumFields : Len(queues[i]) = Min(accepted, DefaultWindow)

\* C10's case: more than ten lines accepted, then a rejected one.
C10_Witness ==
    /\ accepted > DefaultWindow
    /\ ev.op = "non_data"

====
